---------------------------- MODULE Spec2Model ----------------------------
(***************************************************************************)
(* Model of plugins/discord_bot_plugin.py: one invocation of               *)
(* DiscordBotOperator.execute, which constructs a DiscordBotWebhookHook    *)
(* (token resolution, endpoint resolution) and calls its execute           *)
(* (payload validation and serialisation, one HttpHook.run).               *)
(*                                                                         *)
(* Python strings are TLA+ strings.  Python's None is the value None       *)
(* below; no input string of the model is equal to it.                     *)
(***************************************************************************)
EXTENDS Integers, Sequences, FiniteSets, TLC

VARIABLES
    http_conn_id,   \* DiscordBotOperator.http_conn_id
    message,        \* DiscordBotOperator.message
    channel,        \* DiscordBotOperator.channel
    tts,            \* DiscordBotOperator.tts
    conn,           \* what the connection store holds for http_conn_id
    pc,             \* position of the invocation
    hook,           \* fields of the DiscordBotWebhookHook under construction
    payload,        \* discord_payload local of DiscordBotWebhookHook.execute
    warned,         \* warnings.warn calls made so far
    calls,          \* HttpHook.run calls made so far
    raised,         \* exceptions raised by the collaborators, in order
    error,          \* exception that reached the caller of the operator
    trace           \* methods that returned normally, in order

vars == <<http_conn_id, message, channel, tts, conn, pc, hook,
          payload, warned, calls, raised, error, trace>>

inputs == <<http_conn_id, message, channel, tts, conn>>

---------------------------------------------------------------------------
(* Bounds of the explored inputs *)

\* every message over Alphabet up to this length is explored
MaxShortLen == 2
\* message lengths MaxContentLen - MaxAround .. MaxContentLen + MaxAround
MaxAround == 1

---------------------------------------------------------------------------
(* Values *)

None == "<None>"
NoError == [type |-> "", msg |-> ""]

\* Python truthiness of an Optional[str]
Truthy(x) == x # None /\ x # ""

MaxContentLen == 2000

RECURSIVE Repeat(_, _)
Repeat(s, n) ==
    IF n = 0 THEN ""
    ELSE IF n = 1 THEN s
    ELSE Repeat(s, n \div 2) \o Repeat(s, n - (n \div 2))

CharAt(s, i) == SubSeq(s, i, i)

\* the characters U+0020..U+005F and U+0061..U+007E in code point order
\* (a string of the model cannot hold U+0060)
PrintableLow ==
    " !\"#$%&'()*+,-./0123456789:;<=>?@ABCDEFGHIJKLMNOPQRSTUVWXYZ[\\]^_"
PrintableHigh == "abcdefghijklmnopqrstuvwxyz{|}~"
IndexIn(str, c) == CHOOSE i \in 1..Len(str) : CharAt(str, i) = c
CharsOf(str) == {CharAt(str, i) : i \in 1..Len(str)}
PrintableChars == CharsOf(PrintableLow) \cup CharsOf(PrintableHigh)

\* characters outside U+0020..U+007E: U+0008, U+0001, U+007F, U+00E9, U+20AC
Backspace == ""
ControlA == ""
Delete == ""
EAcute == "é"
Euro == "€"

\* ord(c), for the characters above
CodePoint(c) ==
    IF c \in CharsOf(PrintableLow) THEN 31 + IndexIn(PrintableLow, c)
    ELSE IF c \in CharsOf(PrintableHigh) THEN 96 + IndexIn(PrintableHigh, c)
    ELSE CASE c = ControlA  -> 1
           [] c = Backspace -> 8
           [] c = "\t"      -> 9
           [] c = "\n"      -> 10
           [] c = "\f"      -> 12
           [] c = "\r"      -> 13
           [] c = Delete    -> 127
           [] c = EAcute    -> 233
           [] c = Euro      -> 8364

Alphabet == {"a", "\"", "\\", "\n"}

\* messages of one character of each other kind below U+0080, and of
\* characters that look like escapes
SampleMessages ==
    {"\t", "\r", "\f", Backspace, ControlA, Delete, "/",
     "\\n", "\\u0041", "\\\"" \o Delete \o "\\", "a\tb" \o ControlA}

\* messages with characters from U+0080 on; a state holds none of them
\* (a string of a state keeps only characters below U+0080)
NonAsciiMessages ==
    {EAcute, Euro, "a" \o EAcute \o "\"", "\\" \o Euro \o "\n" \o EAcute \o "u"}

RECURSIVE StringsOfLen(_)
StringsOfLen(n) ==
    IF n = 0 THEN {""}
    ELSE {s \o c : s \in StringsOfLen(n - 1), c \in Alphabet}

ShortMessages == SampleMessages \cup UNION {StringsOfLen(n) : n \in 0..MaxShortLen}

LongMessages ==
    {Repeat("a", n) :
        n \in (MaxContentLen - MaxAround)..(MaxContentLen + MaxAround)}
    \cup {Repeat("\n", MaxContentLen), Repeat("\\", MaxContentLen + 1)}

Messages == ShortMessages \cup LongMessages

ConnIds == {None, "", "discord_default"}
Passwords == {None, "", "T1"}
ExtraKeys == {"bot_token", "channel", "endpoint"}
ExtraValues(k) ==
    CASE k = "bot_token" -> {"", "T2"}
      [] k = "channel"   -> {"", "456"}
      [] k = "endpoint"  -> {"", "webhooks/9/abc"}
Extras ==
    UNION {{e \in [ks -> {"", "T2", "456", "webhooks/9/abc"}] :
                \A k \in ks : e[k] \in ExtraValues(k)} : ks \in SUBSET ExtraKeys}
Channels == {"", "123"}

NoConnection == [found |-> FALSE, password |-> None, extra |-> <<>>]
Connections ==
    {NoConnection} \cup
    {[found |-> TRUE, password |-> p, extra |-> e] : p \in Passwords, e \in Extras}

TransportErrors ==
    {[type |-> "ConnectionError", msg |-> "connection refused"],
     [type |-> "AirflowException", msg |-> "401:Unauthorized"]}

---------------------------------------------------------------------------
(* Results of a call: a returned value or a raised exception *)

Return(v, w) == [kind |-> "return", value |-> v, error |-> NoError, warnings |-> w]
Raise(t, m) ==
    [kind |-> "raise", value |-> None, error |-> [type |-> t, msg |-> m],
     warnings |-> 0]

\* BaseHook.get_connection: the record of the store, or not-found
get_connection(c) ==
    IF c.found
    THEN Return(c, 0)
    ELSE Raise("AirflowNotFoundException", "The conn_id isn't defined")

\* dict.get(key, "")
ExtraGet(extra, k) == IF k \in DOMAIN extra THEN extra[k] ELSE ""


---------------------------------------------------------------------------
(* DiscordBotWebhookHook._get_token *)

\* _get_token reading extra's bot_token before the password
_get_token_extra_first(c, conn_id) ==
    LET got == get_connection(c) IN
    IF got.kind = "raise" THEN got
    ELSE IF ExtraGet(got.value.extra, "bot_token") # ""
         THEN Return(ExtraGet(got.value.extra, "bot_token"), 1)
    ELSE IF Truthy(got.value.password) THEN Return(got.value.password, 0)
    ELSE IF Truthy(conn_id) THEN Return("", 0)
    ELSE Raise("AirflowNotFoundException",
               "Cannot get token: No valid token nor http_conn_id supplied.")

\* _get_token without the warnings.warn call
_get_token_silent(c, conn_id) ==
    LET got == get_connection(c) IN
    IF got.kind = "raise" THEN got
    ELSE IF Truthy(got.value.password) THEN Return(got.value.password, 0)
    ELSE IF Truthy(conn_id) THEN Return(ExtraGet(got.value.extra, "bot_token"), 0)
    ELSE Raise("AirflowNotFoundException",
               "Cannot get token: No valid token nor http_conn_id supplied.")

\* _get_token without its else branch: extra is read whatever http_conn_id is
_get_token_no_raise(c, conn_id) ==
    LET got == get_connection(c) IN
    IF got.kind = "raise" THEN got
    ELSE IF Truthy(got.value.password) THEN Return(got.value.password, 0)
    ELSE LET bot_token == ExtraGet(got.value.extra, "bot_token") IN
         Return(bot_token, IF bot_token # "" THEN 1 ELSE 0)

\* _get_token raising when extra holds no bot_token either
_get_token_requires_token(c, conn_id) ==
    LET got == get_connection(c) IN
    IF got.kind = "raise" THEN got
    ELSE IF Truthy(got.value.password) THEN Return(got.value.password, 0)
    ELSE IF Truthy(conn_id) /\ ExtraGet(got.value.extra, "bot_token") # ""
         THEN Return(ExtraGet(got.value.extra, "bot_token"), 1)
    ELSE Raise("AirflowNotFoundException",
               "Cannot get token: No valid token nor http_conn_id supplied.")

_get_token(c, conn_id) ==
    LET got == get_connection(c) IN
    IF got.kind = "raise" THEN got
    ELSE IF Truthy(got.value.password) THEN Return(got.value.password, 0)
    ELSE IF Truthy(conn_id) THEN
        LET bot_token == ExtraGet(got.value.extra, "bot_token") IN
        Return(bot_token, IF bot_token # "" THEN 1 ELSE 0)
    ELSE Raise("AirflowNotFoundException",
               "Cannot get token: No valid token nor http_conn_id supplied.")

(* DiscordBotWebhookHook._get_endpoint *)

ChannelEndpoint(ch) == "channels/" \o ch \o "/messages"

\* _get_endpoint reading extra's channel before the channel argument
_get_endpoint_extra_first(c, conn_id, ch) ==
    LET got == get_connection(c) IN
    IF got.kind = "raise" THEN got
    ELSE IF Truthy(conn_id) /\ ExtraGet(got.value.extra, "channel") # ""
         THEN Return(ChannelEndpoint(ExtraGet(got.value.extra, "channel")), 0)
    ELSE IF ch # "" THEN Return(ChannelEndpoint(ch), 0)
    ELSE IF Truthy(conn_id) /\ ExtraGet(got.value.extra, "endpoint") # ""
         THEN Return(ExtraGet(got.value.extra, "endpoint"), 0)
    ELSE IF Truthy(conn_id) THEN Return(None, 0)
    ELSE Raise("AirflowNotFoundException",
               "Cannot get token: No valid channel_id nor http_conn_id supplied.")

\* _get_endpoint raising when no branch yields an endpoint
_get_endpoint_config_error(c, conn_id, ch) ==
    LET got == get_connection(c) IN
    IF got.kind = "raise" THEN got
    ELSE IF ch # "" THEN Return(ChannelEndpoint(ch), 0)
    ELSE IF Truthy(conn_id) /\ ExtraGet(got.value.extra, "channel") # ""
         THEN Return(ChannelEndpoint(ExtraGet(got.value.extra, "channel")), 0)
    ELSE IF Truthy(conn_id) /\ ExtraGet(got.value.extra, "endpoint") # ""
         THEN Return(ExtraGet(got.value.extra, "endpoint"), 0)
    ELSE Raise("AirflowNotFoundException",
               "Cannot get token: No valid channel_id nor http_conn_id supplied.")

_get_endpoint(c, conn_id, ch) ==
    LET got == get_connection(c) IN
    IF got.kind = "raise" THEN got
    ELSE IF ch # "" THEN Return(ChannelEndpoint(ch), 0)
    ELSE IF Truthy(conn_id) THEN
        LET extra_channel == ExtraGet(got.value.extra, "channel")
            endpoint == ExtraGet(got.value.extra, "endpoint")
        IN  IF extra_channel # "" THEN Return(ChannelEndpoint(extra_channel), 0)
            ELSE IF endpoint # "" THEN Return(endpoint, 0)
            ELSE Return(None, 0)
    ELSE Raise("AirflowNotFoundException",
               "Cannot get token: No valid channel_id nor http_conn_id supplied.")

---------------------------------------------------------------------------
(* json.dumps of the payload dict, and DiscordBotWebhookHook._build_payload *)

\* json.encoder.ESCAPE_DCT
ESCAPE_DCT ==
    ("\\" :> "\\\\") @@ ("\"" :> "\\\"") @@ (Backspace :> "\\b")
        @@ ("\f" :> "\\f") @@ ("\n" :> "\\n") @@ ("\r" :> "\\r") @@ ("\t" :> "\\t")

HexDigit(d) == CharAt("0123456789abcdef", d + 1)
Hex4(n) ==
    HexDigit((n \div 4096) % 16) \o HexDigit((n \div 256) % 16)
        \o HexDigit((n \div 16) % 16) \o HexDigit(n % 16)

\* '\\u{0:04x}', as a surrogate pair from U+10000 on
UnicodeEscape(n) ==
    IF n < 65536 THEN "\\u" \o Hex4(n)
    ELSE LET v == n - 65536
         IN  "\\u" \o Hex4(55296 + (v \div 1024)) \o "\\u" \o Hex4(56320 + (v % 1024))

\* json.dumps of one character of a str (ensure_ascii): the characters
\* U+0020..U+007E other than quote and backslash stay, the others are escaped
EscapeChar(c) ==
    IF c \in PrintableChars /\ c # "\"" /\ c # "\\" THEN c
    ELSE IF c \in DOMAIN ESCAPE_DCT THEN ESCAPE_DCT[c]
    ELSE UnicodeEscape(CodePoint(c))

RECURSIVE EscapeString(_)
EscapeString(s) ==
    IF Len(s) = 0 THEN ""
    ELSE IF Len(s) = 1 THEN EscapeChar(s)
    ELSE LET h == Len(s) \div 2
         IN  EscapeString(SubSeq(s, 1, h)) \o EscapeString(SubSeq(s, h + 1, Len(s)))

json_dumps_str(s) == "\"" \o EscapeString(s) \o "\""
json_dumps_bool(b) == IF b THEN "true" ELSE "false"

\* json.dumps({"content": content, "tts": flag}), keys in insertion order
json_dumps(content, flag) ==
    "{\"content\": " \o json_dumps_str(content)
        \o ", \"tts\": " \o json_dumps_bool(flag) \o "}"

\* _build_payload without the length check
_build_payload_unchecked(msg, flag) == Return(json_dumps(msg, flag), 0)

\* _build_payload comparing with < instead of <=
_build_payload_strict(msg, flag) ==
    IF Len(msg) < MaxContentLen
    THEN Return(json_dumps(msg, flag), 0)
    ELSE Raise("AirflowException",
               "Discord message length must be 2000 or fewer characters.")

_build_payload(msg, flag) ==
    IF Len(msg) <= MaxContentLen
    THEN Return(json_dumps(msg, flag), 0)
    ELSE Raise("AirflowException",
               "Discord message length must be 2000 or fewer characters.")

---------------------------------------------------------------------------
(* HttpHook.run as called by DiscordBotWebhookHook.execute *)

\* HttpHook.__init__ is called without a method: its default applies
HttpHookMethod == "POST"

\* the headers with another authorization scheme
Headers_bearer(token) ==
    ("Content-type" :> "application/json") @@ ("Authorization" :> "Bearer " \o token)

Headers(token) ==
    ("Content-type" :> "application/json") @@ ("Authorization" :> "Bot " \o token)

RunCall(h, data) ==
    [method |-> h.method, endpoint |-> h.endpoint, data |-> data,
     headers |-> Headers(h.token)]

---------------------------------------------------------------------------
(* One invocation of DiscordBotOperator.execute *)

NoHook == [method |-> None, http_conn_id |-> None, token |-> None,
           endpoint |-> None, message |-> None, tts |-> FALSE]

Init ==
    /\ http_conn_id \in ConnIds
    /\ message \in Messages
    /\ channel \in Channels
    /\ tts \in BOOLEAN
    /\ conn \in Connections
    /\ pc = "operator_execute"
    /\ hook = NoHook
    /\ payload = None
    /\ warned = 0
    /\ calls = <<>>
    /\ raised = <<>>
    /\ error = NoError
    /\ trace = <<>>

\* DiscordBotWebhookHook.__init__, lines 61-63: method and http_conn_id are
\* assigned before _get_token is called, token only when it returns
HookInit_get_token ==
    /\ pc = "operator_execute"
    /\ LET r == _get_token(conn, http_conn_id) IN
       /\ warned' = warned + r.warnings
       /\ IF r.kind = "return"
          THEN /\ hook' = [hook EXCEPT !.method = HttpHookMethod,
                                       !.http_conn_id = http_conn_id,
                                       !.token = r.value]
               /\ trace' = Append(trace, "_get_token")
               /\ pc' = "hook_init"
               /\ UNCHANGED <<raised, error>>
          ELSE /\ hook' = [hook EXCEPT !.method = HttpHookMethod,
                                       !.http_conn_id = http_conn_id]
               /\ raised' = Append(raised, r.error)
               /\ error' = r.error
               /\ pc' = "failed"
               /\ UNCHANGED trace
    /\ UNCHANGED <<inputs, payload, calls>>

\* DiscordBotWebhookHook.__init__, lines 64-66
HookInit_get_endpoint ==
    /\ pc = "hook_init"
    /\ LET r == _get_endpoint(conn, http_conn_id, channel) IN
       /\ warned' = warned + r.warnings
       /\ IF r.kind = "return"
          THEN /\ hook' = [hook EXCEPT !.endpoint = r.value,
                                       !.message = message,
                                       !.tts = tts]
               /\ trace' = Append(trace, "_get_endpoint")
               /\ pc' = "hook_execute"
               /\ UNCHANGED <<raised, error>>
          ELSE /\ raised' = Append(raised, r.error)
               /\ error' = r.error
               /\ pc' = "failed"
               /\ UNCHANGED <<hook, trace>>
    /\ UNCHANGED <<inputs, payload, calls>>

\* DiscordBotWebhookHook.execute, line 127
HookExecute_build_payload ==
    /\ pc = "hook_execute"
    /\ LET r == _build_payload(hook.message, hook.tts) IN
       /\ warned' = warned + r.warnings
       /\ IF r.kind = "return"
          THEN /\ payload' = r.value
               /\ trace' = Append(trace, "_build_payload")
               /\ pc' = "run"
               /\ UNCHANGED <<raised, error>>
          ELSE /\ raised' = Append(raised, r.error)
               /\ error' = r.error
               /\ pc' = "failed"
               /\ UNCHANGED <<payload, trace>>
    /\ UNCHANGED <<inputs, hook, calls>>

\* DiscordBotWebhookHook.execute, lines 129-136: the call is handed to HttpHook.run
HookExecute_run ==
    /\ pc = "run"
    /\ calls' = Append(calls, RunCall(hook, payload))
    /\ pc' = "in_run"
    /\ UNCHANGED <<inputs, hook, payload, warned, raised, error, trace>>

\* HttpHook.run returns: both execute methods return
RunReturns ==
    /\ pc = "in_run"
    /\ trace' = Append(trace, "run")
    /\ pc' = "done"
    /\ UNCHANGED <<inputs, hook, payload, warned, calls, raised, error>>

\* HttpHook.run raises and execute calls it again
RunRaises_retry ==
    /\ pc = "in_run"
    /\ \E e \in TransportErrors : raised' = Append(raised, e)
    /\ pc' = "run"
    /\ UNCHANGED <<inputs, hook, payload, warned, calls, error, trace>>

\* HttpHook.run raises: nothing catches it on the way to the caller
RunRaises ==
    /\ pc = "in_run"
    /\ \E e \in TransportErrors :
        /\ raised' = Append(raised, e)
        /\ error' = e
    /\ pc' = "failed"
    /\ UNCHANGED <<inputs, hook, payload, warned, calls, trace>>

Next ==
    \/ HookInit_get_token
    \/ HookInit_get_endpoint
    \/ HookExecute_build_payload
    \/ HookExecute_run
    \/ RunReturns
    \/ RunRaises

Spec == Init /\ [][Next]_vars

---------------------------------------------------------------------------
(* Reading a request body back: a JSON object of exactly the two members  *)
(* "content" (a string) and "tts" (a boolean), as json.loads reads it.     *)

\* number of consecutive backslashes that end at position i
RECURSIVE BackslashRun(_, _)
BackslashRun(s, i) ==
    IF i = 0 \/ CharAt(s, i) # "\\" THEN 0 ELSE 1 + BackslashRun(s, i - 1)

\* position i holds a quote that no backslash escapes
ClosingQuote(s, i) == CharAt(s, i) = "\"" /\ BackslashRun(s, i - 1) % 2 = 0

\* least position of lo..hi holding an unescaped quote, 0 when there is none
RECURSIVE FirstClose(_, _, _)
FirstClose(s, lo, hi) ==
    IF lo > hi THEN 0
    ELSE IF lo = hi THEN (IF ClosingQuote(s, lo) THEN lo ELSE 0)
    ELSE LET m == (lo + hi) \div 2
             l == FirstClose(s, lo, m)
         IN  IF l # 0 THEN l ELSE FirstClose(s, m + 1, hi)

BadEscape == "<bad escape>"

HexDigits == "0123456789abcdefABCDEF"
IsHex(d) == d \in CharsOf(HexDigits)
HexValue(d) ==
    LET i == IndexIn(HexDigits, d) IN IF i <= 16 THEN i - 1 ELSE i - 7

\* chr(n), for the characters CodePoint knows
CharOf(n) ==
    IF n >= 32 /\ n <= 95 THEN CharAt(PrintableLow, n - 31)
    ELSE IF n >= 97 /\ n <= 126 THEN CharAt(PrintableHigh, n - 96)
    ELSE CASE n = 1    -> ControlA
           [] n = 8    -> Backspace
           [] n = 9    -> "\t"
           [] n = 10   -> "\n"
           [] n = 12   -> "\f"
           [] n = 13   -> "\r"
           [] n = 127  -> Delete
           [] n = 233  -> EAcute
           [] n = 8364 -> Euro
           [] OTHER    -> BadEscape

\* position q holds the backslash that starts an escape
Introducer(s, q) == CharAt(s, q) = "\\" /\ BackslashRun(s, q) % 2 = 1
\* last position of the escape that starts at q
TokenEnd(s, q) == IF CharAt(s, q + 1) = "u" THEN q + 5 ELSE q + 1

\* the character one whole escape stands for
DecodeToken(t) ==
    IF Len(t) = 2 THEN
        CASE CharAt(t, 2) = "\"" -> "\""
          [] CharAt(t, 2) = "\\" -> "\\"
          [] CharAt(t, 2) = "/"  -> "/"
          [] CharAt(t, 2) = "b"  -> Backspace
          [] CharAt(t, 2) = "f"  -> "\f"
          [] CharAt(t, 2) = "n"  -> "\n"
          [] CharAt(t, 2) = "r"  -> "\r"
          [] CharAt(t, 2) = "t"  -> "\t"
          [] OTHER -> BadEscape
    ELSE IF Len(t) = 6 /\ CharAt(t, 2) = "u" /\ \A i \in 3..6 : IsHex(CharAt(t, i)) THEN
        CharOf(4096 * HexValue(CharAt(t, 3)) + 256 * HexValue(CharAt(t, 4))
                 + 16 * HexValue(CharAt(t, 5)) + HexValue(CharAt(t, 6)))
    ELSE BadEscape

\* a position near h at which no escape is cut in two
SafeCut(s, h) ==
    LET qs == {q \in 1..h : q >= h - 4 /\ Introducer(s, q) /\ TokenEnd(s, q) > h}
    IN  IF qs = {} THEN h
        ELSE LET q == CHOOSE x \in qs : TRUE
             IN  IF TokenEnd(s, q) < Len(s) THEN TokenEnd(s, q) ELSE q - 1

\* the characters a JSON string body stands for
RECURSIVE Unescape(_)
Unescape(s) ==
    IF Len(s) = 0 THEN ""
    ELSE IF CharAt(s, 1) = "\\" /\ TokenEnd(s, 1) >= Len(s) THEN DecodeToken(s)
    ELSE IF Len(s) = 1 THEN (IF s \in PrintableChars THEN s ELSE BadEscape)
    ELSE LET cut == SafeCut(s, Len(s) \div 2)
         IN  Unescape(SubSeq(s, 1, cut)) \o Unescape(SubSeq(s, cut + 1, Len(s)))

NotJson == [ok |-> FALSE, content |-> "", tts |-> FALSE]

json_loads(body) ==
    LET prefix == "{\"content\": \""
        n == Len(prefix)
    IN  IF Len(body) <= n \/ SubSeq(body, 1, n) # prefix THEN NotJson
        ELSE LET close == FirstClose(body, n + 1, Len(body)) IN
             IF close = 0 THEN NotJson
             ELSE LET text == Unescape(SubSeq(body, n + 1, close - 1))
                      rest == SubSeq(body, close, Len(body))
                  IN  IF rest = "\", \"tts\": true}"
                      THEN [ok |-> TRUE, content |-> text, tts |-> TRUE]
                      ELSE IF rest = "\", \"tts\": false}"
                      THEN [ok |-> TRUE, content |-> text, tts |-> FALSE]
                      ELSE NotJson

---------------------------------------------------------------------------
(* Vocabulary of the properties *)

Terminated == pc \in {"done", "failed"}

NotFound(e) == e.type = "AirflowNotFoundException"
ValidationError ==
    [type |-> "AirflowException",
     msg |-> "Discord message length must be 2000 or fewer characters."]

\* the methods that have returned normally so far
TokenResolved == Len(trace) >= 1 /\ trace[1] = "_get_token"
EndpointResolved == Len(trace) >= 2 /\ trace[2] = "_get_endpoint"
PayloadBuilt == Len(trace) >= 3 /\ trace[3] = "_build_payload"
\* DiscordBotWebhookHook.execute was entered and _build_payload has acted
BuildPayloadActed == EndpointResolved /\ pc # "hook_execute"

ConnIdSupplied == Truthy(http_conn_id)
HasSecret == conn.found /\ Truthy(conn.password)
ExtraHas(k) == conn.found /\ k \in DOMAIN conn.extra /\ conn.extra[k] # ""

TypeOK ==
    /\ pc \in {"operator_execute", "hook_init", "hook_execute", "run", "in_run",
               "done", "failed"}
    /\ warned \in 0..1
    /\ Len(calls) \in 0..1
    /\ Len(raised) \in 0..1

\* the character tables agree with each other and with json.dumps
CharTablesOK ==
    /\ Len(PrintableLow) = 64 /\ Len(PrintableHigh) = 30
    /\ \A c \in {Backspace, ControlA, Delete, EAcute, Euro} : Len(c) = 1
    /\ \A c \in PrintableChars \cup {Backspace, ControlA, Delete, EAcute, Euro,
                                      "\t", "\n", "\f", "\r"} :
           CharOf(CodePoint(c)) = c
    /\ EscapeChar("\n") = "\\n" /\ EscapeChar(EAcute) = "\\u00e9"
    /\ EscapeChar(Euro) = "\\u20ac" /\ EscapeChar(Delete) = "\\u007f"
    /\ EscapeChar(ControlA) = "\\u0001" /\ EscapeChar(Backspace) = "\\b"
    /\ EscapeChar("/") = "/" /\ UnicodeEscape(128512) = "\\ud83d\\ude00"

---------------------------------------------------------------------------
(* Properties *)

\* C1: a message longer than 2000 characters never leads to an HttpHook.run
\* call; once DiscordBotWebhookHook.execute is reached (and always when a
\* connection identifier is supplied and its record is found) the invocation
\* ends in the validation error, for every connection record, channel and tts.
C1_LongMessageFailsValidation ==
    Len(message) > MaxContentLen =>
        /\ calls = <<>>
        /\ pc \notin {"run", "in_run", "done"}
        /\ payload = None
        /\ BuildPayloadActed => (pc = "failed" /\ error = ValidationError)
        /\ (ConnIdSupplied /\ conn.found /\ pc = "failed") => error = ValidationError

C1_Witness ==
    /\ Len(message) > MaxContentLen
    /\ EndpointResolved
    /\ pc = "failed"
    /\ error = ValidationError
    /\ calls = <<>>

\* C2: for a message of 0..2000 characters _build_payload raises nothing and
\* the body it returns reads back as exactly {content: the message, tts: the
\* flag given at construction}.  The messages of the states hold characters
\* below U+0080; NonAsciiMessages are given to _build_payload directly.
C2_PayloadRoundTrip ==
    (Len(message) <= MaxContentLen /\ BuildPayloadActed) =>
        /\ PayloadBuilt
        /\ error # ValidationError
        /\ payload # None
        /\ pc = "run" =>
               /\ json_loads(payload) = [ok |-> TRUE, content |-> message, tts |-> hook.tts]
               /\ \A m \in NonAsciiMessages :
                      /\ _build_payload(m, hook.tts).kind = "return"
                      /\ json_loads(_build_payload(m, hook.tts).value)
                             = [ok |-> TRUE, content |-> m, tts |-> hook.tts]
        /\ hook.tts = tts

C2_Witness ==
    /\ Len(message) = MaxContentLen
    /\ pc = "run"
    /\ json_loads(payload) = [ok |-> TRUE, content |-> message, tts |-> tts]

\* C3: a non-empty password of the looked-up record is the token, whatever
\* extra's bot_token is (absent, empty, another token) and whatever the
\* connection identifier is, and no warning is emitted.
C3_SecretWins ==
    HasSecret =>
        /\ _get_token(conn, http_conn_id).kind = "return"
        /\ _get_token(conn, http_conn_id).value = conn.password
        /\ _get_token(conn, http_conn_id).warnings = 0
        /\ warned = 0
        /\ pc # "operator_execute" => (TokenResolved /\ hook.token = conn.password)

C3_Witness ==
    /\ HasSecret
    /\ ExtraHas("bot_token")
    /\ conn.extra["bot_token"] # conn.password
    /\ pc = "hook_init"
    /\ hook.token = conn.password
    /\ warned = 0

\* C4: with a connection identifier, no password and a non-empty bot_token in
\* extra, the token is that bot_token and the invocation emits exactly one
\* warning: none before token resolution, one in every state after it.
C4_Pre ==
    /\ ConnIdSupplied
    /\ conn.found
    /\ ~Truthy(conn.password)
    /\ ExtraHas("bot_token")

C4_FallbackWarnsOnce ==
    C4_Pre =>
        /\ _get_token(conn, http_conn_id).kind = "return"
        /\ _get_token(conn, http_conn_id).value = conn.extra["bot_token"]
        /\ pc = "operator_execute" => warned = 0
        /\ pc # "operator_execute" =>
               (TokenResolved /\ hook.token = conn.extra["bot_token"] /\ warned = 1)

C4_Witness ==
    /\ C4_Pre
    /\ pc = "done"
    /\ hook.token = "T2"
    /\ warned = 1

\* C5 as stated: a non-empty channel argument makes _get_endpoint yield
\* channels/{channel}/messages, whatever extra holds and whether or not a
\* connection identifier is supplied.  Line 92 looks the connection up
\* before line 94 tests the channel, so this fails when the lookup raises.
C5_AsStated ==
    channel # "" =>
        /\ _get_endpoint(conn, http_conn_id, channel).kind = "return"
        /\ _get_endpoint(conn, http_conn_id, channel).value
               = "channels/" \o channel \o "/messages"

\* C5 amended: when a non-empty channel argument is supplied and the lookup
\* of line 92 returns a record, _get_endpoint yields
\* channels/{channel}/messages, whatever extra holds and whether or not a
\* connection identifier is supplied, and the hook's endpoint is that path
\* from endpoint resolution on; when the lookup raises, _get_endpoint raises
\* the lookup's error and yields no endpoint.
C5_ExplicitChannelWins ==
    channel # "" =>
        /\ conn.found =>
              /\ _get_endpoint(conn, http_conn_id, channel).kind = "return"
              /\ _get_endpoint(conn, http_conn_id, channel).value
                     = "channels/" \o channel \o "/messages"
              /\ EndpointResolved =>
                     hook.endpoint = "channels/" \o channel \o "/messages"
              /\ (TokenResolved /\ pc # "hook_init") => EndpointResolved
        /\ ~conn.found =>
              /\ _get_endpoint(conn, http_conn_id, channel)
                     = get_connection(conn)
              /\ _get_endpoint(conn, http_conn_id, channel).kind = "raise"
              /\ ~EndpointResolved
              /\ hook.endpoint = None

C5_Witness ==
    /\ channel = "123"
    /\ ExtraHas("channel")
    /\ ExtraHas("endpoint")
    /\ pc = "hook_execute"
    /\ hook.endpoint = "channels/123/messages"

\* C6: without connection identifier, channel argument and password, both
\* resolvers raise not-found, and the invocation ends in not-found at its
\* first step, before any HttpHook.run call.
C6_Pre ==
    /\ ~ConnIdSupplied
    /\ channel = ""
    /\ ~HasSecret

C6_NothingSuppliedNotFound ==
    C6_Pre =>
        /\ _get_token(conn, http_conn_id).kind = "raise"
        /\ NotFound(_get_token(conn, http_conn_id).error)
        /\ _get_endpoint(conn, http_conn_id, channel).kind = "raise"
        /\ NotFound(_get_endpoint(conn, http_conn_id, channel).error)
        /\ calls = <<>>
        /\ pc # "operator_execute" =>
               (pc = "failed" /\ NotFound(error) /\ trace = <<>>)

C6_Witness ==
    /\ C6_Pre
    /\ conn.found
    /\ pc = "failed"
    /\ error = [type |-> "AirflowNotFoundException",
                msg |-> "Cannot get token: No valid token nor http_conn_id supplied."]
    /\ calls = <<>>

\* C7: an invocation makes at most one HttpHook.run call; it completes after
\* exactly one, and a failure raised by the call is the error the caller
\* sees, with no second call.
C7_AtMostOneCall ==
    /\ Len(calls) <= 1
    /\ pc \in {"in_run", "done"} => Len(calls) = 1
    /\ pc = "done" => (error = NoError /\ raised = <<>>)
    /\ (pc = "failed" /\ calls # <<>>) =>
           (raised = <<error>> /\ error \in TransportErrors)
    /\ Len(raised) <= 1

C7_Witness ==
    /\ pc = "failed"
    /\ Len(calls) = 1
    /\ error \in TransportErrors
    /\ raised = <<error>>

\* C8: the HttpHook.run call is a POST to the endpoint that _get_endpoint
\* returned, with Authorization "Bot " + the token that _get_token returned
\* and Content-type application/json, and is made only after _get_token,
\* _get_endpoint and _build_payload returned, in that order.
C8_CallShape ==
    calls # <<>> =>
        /\ calls[1].method = "POST"
        /\ _get_endpoint(conn, http_conn_id, channel).kind = "return"
        /\ calls[1].endpoint = _get_endpoint(conn, http_conn_id, channel).value
        /\ _get_token(conn, http_conn_id).kind = "return"
        /\ DOMAIN calls[1].headers = {"Content-type", "Authorization"}
        /\ calls[1].headers["Authorization"]
               = "Bot " \o _get_token(conn, http_conn_id).value
        /\ calls[1].headers["Content-type"] = "application/json"
        /\ calls[1].data = payload
        /\ Len(message) <= MaxContentLen
        /\ SubSeq(trace, 1, 3) = <<"_get_token", "_get_endpoint", "_build_payload">>

C8_Witness ==
    /\ pc = "in_run"
    /\ calls # <<>>
    /\ calls[1].method = "POST"
    /\ calls[1].endpoint = "channels/123/messages"
    /\ calls[1].headers["Authorization"] = "Bot T1"
    /\ trace = <<"_get_token", "_get_endpoint", "_build_payload">>

\* C9: with a connection identifier, no channel argument and neither a
\* non-empty channel nor a non-empty endpoint in extra, _get_endpoint returns
\* None without raising, and the invocation goes on: it can fail only in
\* validation or in the call, and a valid message is sent to endpoint None.
C9_Pre ==
    /\ ConnIdSupplied
    /\ conn.found
    /\ channel = ""
    /\ ~ExtraHas("channel")
    /\ ~ExtraHas("endpoint")

C9_NoEndpointStillCalls ==
    C9_Pre =>
        /\ _get_endpoint(conn, http_conn_id, channel).kind = "return"
        /\ _get_endpoint(conn, http_conn_id, channel).value = None
        /\ pc \notin {"operator_execute", "hook_init"} =>
               (EndpointResolved /\ hook.endpoint = None)
        /\ (pc = "failed" /\ calls = <<>>) => error = ValidationError
        /\ calls # <<>> => calls[1].endpoint = None
        /\ (Len(message) <= MaxContentLen /\ Terminated) => Len(calls) = 1

C9_Witness ==
    /\ C9_Pre
    /\ pc = "done"
    /\ Len(calls) = 1
    /\ calls[1].endpoint = None

\* C10: with a connection identifier and neither a non-empty password nor a
\* non-empty bot_token, _get_token returns "" without raising or warning, and
\* an invocation with a valid message and a resolvable endpoint makes the
\* call with Authorization "Bot ".
C10_Pre ==
    /\ ConnIdSupplied
    /\ conn.found
    /\ ~Truthy(conn.password)
    /\ ~ExtraHas("bot_token")

EndpointResolvable == channel # "" \/ ExtraHas("channel") \/ ExtraHas("endpoint")

C10_EmptyTokenStillCalls ==
    C10_Pre =>
        /\ _get_token(conn, http_conn_id).kind = "return"
        /\ _get_token(conn, http_conn_id).value = ""
        /\ warned = 0
        /\ pc # "operator_execute" => (TokenResolved /\ hook.token = "")
        /\ calls # <<>> => calls[1].headers["Authorization"] = "Bot "
        /\ (Len(message) <= MaxContentLen /\ EndpointResolvable /\ Terminated) =>
               Len(calls) = 1

C10_Witness ==
    /\ C10_Pre
    /\ EndpointResolvable
    /\ pc = "in_run"
    /\ calls[1].headers["Authorization"] = "Bot "
    /\ calls[1].endpoint # None

=============================================================================
